---- MODULE Spec2Model ----
(***************************************************************************)
(* Model of the cluster-usage tools of ldf_ops_tools (src/usage).          *)
(*                                                                         *)
(* The program is a batch pipeline: gather_data (reconciliation of sacct   *)
(* rows), convert_times, convert_names (classification), get_usage (time   *)
(* histogram), make_plot with get_first_last (spans of the plot),          *)
(* get_nodehours and get_codehours; usageplot.py plots a histogram that    *)
(* was written out and reports get_elapsed and get_nodehours; the scripts  *)
(* of src/bin ingest the rows of a file into a database.  Each stage is a  *)
(* function of its inputs, so each stage has a specification whose Init    *)
(* draws the inputs from bounded sets and whose actions run the stage.     *)
(*                                                                         *)
(* Representation of Python values:                                        *)
(*   - a str is the sequence of its pieces, so that split, strip, rstrip   *)
(*     and re.match are computed and not assumed: a piece is a separator   *)
(*     character ("," "." newline, blank) or a run of other characters (a  *)
(*     single character in job names and mapping keys);                    *)
(*   - a datetime that convert_times has made is the record of its year,   *)
(*     month, day, hour, minute and second; from get_usage on it is an     *)
(*     integer number of seconds (sacct timestamps have second             *)
(*     resolution), a timedelta's total_seconds() is their difference, an  *)
(*     integer-valued double;                                              *)
(*   - a double obtained by dividing two integers is computed with the     *)
(*     IEEE-754 binary64 rounding, by integer long division (FloatIdx,     *)
(*     round2);                                                            *)
(*   - a dict is the sequence of its entries in insertion order;           *)
(*   - an exception is the string of its class name in err, "None" when    *)
(*     none was raised; a variable that has not been assigned yet holds    *)
(*     <<>> (lists) or -1 (node_hours).                                    *)
(***************************************************************************)
EXTENDS Integers, Sequences, FiniteSets, TLC

VARIABLES pc,          \* the stage of the pipeline that runs next
          args,        \* the command line: [jobs, users, failed]
          stdout,      \* the standard output of sacct
          stderr,      \* the standard error of sacct
          recon,       \* gather_data's dicts jobs and steps, after patching
          data,        \* the accounting data, a list of records
          data0,       \* the accounting data before convert_names
          rerun,       \* the reconciliation of the reconciled data
          mapping,     \* the mapping from job name prefixes to code names
          msg,         \* the message of the exception raised
          cur,         \* convert_names: the position of the datum it ended at
          res,         \* the resolution of the histogram
          times, usage, jobs,   \* what get_usage returns
          idx,         \* get_usage's i, j of every record
          node_hours,  \* what get_nodehours returns, in hundredths
                       \* (usageplot.py: in hours, as a fraction)
          code_nodehours,   \* what get_codehours returns, in hundredths
          start_end,   \* what get_first_last returns
          elapsed,     \* what get_elapsed returns
          input,       \* ingest scripts: the rows of the input
          pos,         \* ingest scripts: the number of rows read so far
          attempts,    \* ingest scripts: the values of every insert executed
          commits,     \* ingest scripts: the number of commits issued
          err          \* the exception raised, or None

vars == <<pc, args, stdout, stderr, recon, data, data0, rerun, mapping, msg,
          cur, res, times, usage, jobs, idx, node_hours, code_nodehours,
          start_end, elapsed, input, pos, attempts, commits, err>>

None == "None"

\* An optional command-line argument: <<>> when it is None, <<s>> for the
\* string s.
NoArg == <<>>
Arg(s) == <<s>>

(***************************************************************************)
(* Bounds of the model.                                                    *)
(***************************************************************************)
MaxRecs == 2
MaxTicks == 3
MaxRes == 7
MaxLines == 3
MaxKeys == 2
MaxNames == 2

\* Width of one tick of the time grid, in seconds: records start and end on
\* multiples of one of these.
TimeUnits == {3, 1800}
\* The kinds of job of the histogram stage: a name and a node count.
JobKinds == {[jobname |-> <<"c", "o">>, nnodes |-> <<"2">>],
             [jobname |-> <<"m", "o">>, nnodes |-> <<"3">>]}

(***************************************************************************)
(* Generic helpers                                                         *)
(***************************************************************************)
SetMin(S) == CHOOSE x \in S : \A y \in S : x <= y
SetMax(S) == CHOOSE x \in S : \A y \in S : x >= y

RECURSIVE SumSeq(_)
SumSeq(s) == IF s = <<>> THEN 0 ELSE Head(s) + SumSeq(Tail(s))

RECURSIVE Flatten(_)
Flatten(ss) == IF ss = <<>> THEN <<>> ELSE Head(ss) \o Flatten(Tail(ss))

(***************************************************************************)
(* str methods                                                             *)
(***************************************************************************)
DigitVal(c) ==
    CASE c = "0" -> 0 [] c = "1" -> 1 [] c = "2" -> 2 [] c = "3" -> 3
      [] c = "4" -> 4 [] c = "5" -> 5 [] c = "6" -> 6 [] c = "7" -> 7
      [] c = "8" -> 8 [] c = "9" -> 9

\* int(s) for a string of decimal digits
RECURSIVE ParseInt(_)
ParseInt(s) ==
    IF Len(s) = 1 THEN DigitVal(s[1])
    ELSE 10 * ParseInt(SubSeq(s, 1, Len(s) - 1)) + DigitVal(s[Len(s)])

\* s.split(sep) for a one-character separator: always at least one token
RECURSIVE Split(_, _)
Split(s, sep) ==
    IF \A n \in 1..Len(s) : s[n] # sep THEN <<s>>
    ELSE LET p == SetMin({n \in 1..Len(s) : s[n] = sep})
         IN  <<SubSeq(s, 1, p - 1)>> \o Split(SubSeq(s, p + 1, Len(s)), sep)

\* s.rstrip(c)
RECURSIVE RStrip(_, _)
RStrip(s, c) ==
    IF s # <<>> /\ s[Len(s)] = c THEN RStrip(SubSeq(s, 1, Len(s) - 1), c)
    ELSE s

(***************************************************************************)
(* IEEE-754 binary64 arithmetic on quotients of integers                   *)
(***************************************************************************)
Pow2(k) == 2 ^ k

RECURSIVE FloorLog2(_)
FloorLog2(n) == IF n < 2 THEN 0 ELSE 1 + FloorLog2(n \div 2)

\* (r * 2^k) mod m by repeated doubling: the remainder left after k more
\* binary digits of a long division by m.
RECURSIVE DoubleMod(_, _, _)
DoubleMod(r, k, m) == IF k = 0 THEN r ELSE DoubleMod((2 * r) % m, k - 1, m)

\* <<dn, Rn, e>> with d/R = 2^e * dn/Rn and 1 <= dn/Rn < 2: e is the binary
\* exponent of the double d/R.
RECURSIVE Normalise(_, _, _)
Normalise(dn, Rn, e) ==
    IF dn < Rn THEN Normalise(2 * dn, Rn, e - 1)
    ELSE IF dn >= 2 * Rn THEN Normalise(dn, 2 * Rn, e + 1)
    ELSE <<dn, Rn, e>>

\* The remainder of the 53-bit significand of the double d/R: 0 when d/R is
\* exact, more than R/2 when the double is rounded up.
SigRem(d, R) == DoubleMod(d % R, 52 - Normalise(d, R, 0)[3], R)

\* int(t / step) with step = d / R computed in binary64 (d > 0, R > 0,
\* t >= 0 integers).  The exact quotient is t*R/d.  When it is not an
\* integer the roundings cannot reach the next integer and the result is
\* its floor.  When it is an integer n, the result is n unless step was
\* rounded up far enough for t/step to round to the double below n.
FloatIdx(t, d, R) ==
    LET q == (t * R) \div d
    IN  IF (t * R) % d # 0 \/ q = 0 THEN q
        ELSE LET nrm == Normalise(d, R, 0)
                 rem == SigRem(d, R)
                 k == FloorLog2(q)
                 f == IF q = Pow2(k) THEN 4 ELSE 2
             IN  IF 2 * rem <= R THEN q
                 ELSE IF f * q * (R - rem) * nrm[2] > Pow2(k) * R * nrm[1]
                      THEN q - 1
                      ELSE q

\* round(x / 3600.0, 2) in hundredths, for an integer x >= 0: the double
\* x/3600.0 is rounded to 2 decimals on its exact value, ties to even; a
\* decimal tie (x mod 36 = 18) is decided by the rounding of the division.
round2(x) ==
    LET h == x \div 36
        r == x % 36
        rem == SigRem(x, 3600)
    IN  IF r < 18 THEN h
        ELSE IF r > 18 THEN h + 1
        ELSE IF rem = 0 THEN (IF h % 2 = 0 THEN h ELSE h + 1)
        ELSE IF 2 * rem > 3600 THEN h + 1
        ELSE h

(***************************************************************************)
(* get_usage (process.py)                                                  *)
(*                                                                         *)
(* A record of the accounting data, as get_usage reads it:                 *)
(*   [jobname |-> str, nnodes |-> str, start |-> seconds, end |-> seconds] *)
(***************************************************************************)
SeqRange(s) == {s[n] : n \in 1..Len(s)}

\* duration = (end - begin).total_seconds()
duration_of(d) ==
    SetMax({r.end : r \in SeqRange(d)}) - SetMin({r.start : r \in SeqRange(d)})

\* bucket_range with the step of a histogram of R + 1 buckets
bucket_range_extra_bin(d, R) ==
    LET begin == SetMin({r.start : r \in SeqRange(d)})
        duration == duration_of(d)
    IN  [n \in 1..Len(d) |->
            <<FloatIdx(d[n].start - begin, duration, R + 1),
              FloatIdx(d[n].end - begin, duration, R + 1)>>]

\* i, j = int(begin / step), int(end / step) for every record
bucket_range(d, R) ==
    LET begin == SetMin({r.start : r \in SeqRange(d)})
        duration == duration_of(d)
    IN  [n \in 1..Len(d) |->
            <<FloatIdx(d[n].start - begin, duration, R),
              FloatIdx(d[n].end - begin, duration, R)>>]

\* InBucket with the end bucket included: range(i, j + 1)
InBucket_inclusive(ij, k) ==
    SelectSeq([n \in 1..Len(ij) |-> n],
              LAMBDA n : ij[n][1] <= k /\ k <= ij[n][2])

\* The records whose range(i, j) contains bucket k, in input order (ij is
\* the list of the records' <<i, j>>).
InBucket(ij, k) ==
    SelectSeq([n \in 1..Len(ij) |-> n],
              LAMBDA n : ij[n][1] <= k /\ k < ij[n][2])

\* usage[k]: the node counts added to bucket k
usage_at(d, ij, k) ==
    LET on == InBucket(ij, k)
    IN  SumSeq([m \in 1..Len(on) |-> ParseInt(d[on[m]].nnodes)])

\* names[k]: the names appended to bucket k, each followed by a comma
names_at(d, ij, k) ==
    LET on == InBucket(ij, k)
    IN  Flatten([m \in 1..Len(on) |-> d[on[m]].jobname \o <<",">>])

\* jobs[k]: names[k] without its trailing commas, split at the commas
jobs_at(d, ij, k) ==
    LET s == RStrip(names_at(d, ij, k), ",")
    IN  IF s # <<>> THEN Split(s, ",") ELSE <<>>

\* times[k] = step * (k + 0.5) / 3600.0, as the exact fraction <<num, den>>
\* of which the double is an approximation.
times_at(d, R, k) == <<duration_of(d) * (2 * k + 1), 2 * R * 3600>>

\* True when some usage[k] += nodes would index past the list of R buckets.
IndexPastEnd(ij, R) ==
    \E n \in 1..Len(ij) : ij[n][1] < ij[n][2] /\ ij[n][2] > R

\* get_usage without the failures of min() and of the divisions: an empty
\* histogram comes back for no records, for R = 0 and for a zero duration.
get_usage_unchecked(d, R) ==
    IF d = <<>> \/ R = 0 \/ duration_of(d) = 0
    THEN [err |-> None, times |-> <<>>, usage |-> <<>>, jobs |-> <<>>,
          idx |-> <<>>]
    ELSE [err |-> None,
          times |-> [p \in 1..R |-> times_at(d, R, p - 1)],
          usage |-> [p \in 1..R |-> usage_at(d, bucket_range(d, R), p - 1)],
          jobs |-> [p \in 1..R |-> jobs_at(d, bucket_range(d, R), p - 1)],
          idx |-> bucket_range(d, R)]

\* The result of get_usage(data, res): the exception raised, or None and
\* the three returned lists (Python index k is position k + 1).
get_usage(d, R) ==
    LET fail(e) == [err |-> e, times |-> <<>>, usage |-> <<>>,
                    jobs |-> <<>>, idx |-> <<>>]
    IN  IF d = <<>> THEN fail("ValueError")
        ELSE IF R = 0 THEN fail("ZeroDivisionError")
        ELSE IF duration_of(d) = 0 THEN fail("ZeroDivisionError")
        ELSE CHOOSE h \in
               {IF IndexPastEnd(ij, R) THEN fail("IndexError")
                ELSE [err |-> None,
                      times |-> [p \in 1..R |-> times_at(d, R, p - 1)],
                      usage |-> [p \in 1..R |-> usage_at(d, ij, p - 1)],
                      jobs |-> [p \in 1..R |-> jobs_at(d, ij, p - 1)],
                      idx |-> ij] : ij \in {bucket_range(d, R)}} : TRUE

\* get_nodehours that rounds the node-hours of every record and sums the
\* rounded values
get_nodehours_per_record(d) ==
    SumSeq([n \in 1..Len(d) |->
               round2((d[n].end - d[n].start) * ParseInt(d[n].nnodes))])

\* get_nodehours(data), in hundredths of a node-hour
get_nodehours(d) ==
    round2(SumSeq([n \in 1..Len(d) |->
                      (d[n].end - d[n].start) * ParseInt(d[n].nnodes)]))

(***************************************************************************)
(* get_first_last and make_plot (output.py)                                *)
(*                                                                         *)
(* jobs is the list of the label lists of the buckets; bucket idx of       *)
(* Python is position idx + 1.                                             *)
(***************************************************************************)
\* The keys of names, in the order in which setdefault inserts them
RECURSIVE first_seen(_, _)
first_seen(labels, seen) ==
    IF labels = <<>> THEN seen
    ELSE first_seen(Tail(labels),
                    IF \E n \in 1..Len(seen) : seen[n] = Head(labels)
                    THEN seen ELSE Append(seen, Head(labels)))

\* names[job]: the set of the idx whose list holds job
indices_of(jobs_, job) ==
    {n - 1 : n \in {m \in 1..Len(jobs_) :
                       \E q \in 1..Len(jobs_[m]) : jobs_[m][q] = job}}

\* sorted(v)
RECURSIVE sorted(_)
sorted(v) ==
    IF v = {} THEN <<>> ELSE <<SetMin(v)>> \o sorted(v \ {SetMin(v)})

\* gap_of that passes over a gap of a single bucket: e - s > 2
gap_of_wide(value) ==
    Flatten([n \in 1..(Len(value) - 1) |->
                IF value[n + 1] - value[n] > 2
                THEN <<value[n], value[n + 1]>> ELSE <<>>])

\* sum(gap, []) with gap = [[s, e] for s, e in zip(value, value[1:])
\* if e - s > 1]
gap_of(value) ==
    Flatten([n \in 1..(Len(value) - 1) |->
                IF value[n + 1] - value[n] > 1
                THEN <<value[n], value[n + 1]>> ELSE <<>>])

\* edges = value[:1] + sum(gap, []) + value[-1:]
edges_of(value) ==
    IF value = <<>> THEN <<>>
    ELSE <<value[1]>> \o gap_of(value) \o <<value[Len(value)]>>

\* zip_pairs that pairs every even element with itself
zip_pairs_ends(edges) ==
    [n \in 1..(Len(edges) \div 2) |-> <<edges[2 * n], edges[2 * n]>>]

\* list(zip(edges[::2], edges[1::2]))
zip_pairs(edges) ==
    [n \in 1..(Len(edges) \div 2) |-> <<edges[2 * n - 1], edges[2 * n]>>]

\* get_first_last(jobs): the dict start_end
get_first_last(jobs_) ==
    LET keys == first_seen(Flatten(jobs_), <<>>)
    IN  [n \in 1..Len(keys) |->
            <<keys[n], zip_pairs(edges_of(sorted(indices_of(jobs_, keys[n]))))>>]

\* The keys of make_plot's dicts colors and hatch
plot_keys ==
    {<<"singleFrame">>, <<"mosaic">>, <<"coadd">>, <<"multiband">>,
     <<"unknown">>, <<"forc">>, <<"quick">>, <<"skyCorrection">>}

\* make_plot(title, times, nodes, name, job_list, color): the exception
\* raised, or None, and the dict start_end of a colour-coded plot; a label
\* that is no key of hatch and colors raises KeyError
make_plot(job_list, color) ==
    IF ~color THEN [err |-> None, start_end |-> <<>>]
    ELSE LET first_last == get_first_last(job_list)
         IN  IF \E n \in 1..Len(first_last) : first_last[n][1] \notin plot_keys
             THEN [err |-> "KeyError", start_end |-> <<>>]
             ELSE [err |-> None, start_end |-> first_last]

(***************************************************************************)
(* Specification of the histogram stage: get_usage, make_plot, then        *)
(* get_nodehours.                                                          *)
(***************************************************************************)
UsageRecords(u) ==
    {r \in {[jobname |-> j.jobname, nnodes |-> j.nnodes, start |-> u * a,
              end |-> u * b] :
                 j \in JobKinds, a \in 0..MaxTicks, b \in 0..MaxTicks} :
        r.start <= r.end}

DataLists(u) == UNION {[1..n -> UsageRecords(u)] : n \in 0..MaxRecs}

InitUsage ==
    /\ pc = "get_usage"
    /\ \E u \in TimeUnits : data \in DataLists(u)
    /\ res \in 0..MaxRes
    /\ args = <<>> /\ stdout = <<>> /\ stderr = <<>> /\ recon = <<>>
    /\ data0 = <<>> /\ rerun = <<>> /\ mapping = <<>> /\ msg = <<>>
    /\ cur = 0
    /\ times = <<>> /\ usage = <<>> /\ jobs = <<>> /\ idx = <<>>
    /\ node_hours = -1 /\ err = None
    /\ code_nodehours = <<>> /\ start_end = <<>> /\ elapsed = <<>>
    /\ input = <<>> /\ pos = 0 /\ attempts = <<>> /\ commits = 0

GetUsage ==
    /\ pc = "get_usage"
    /\ \E r \in {get_usage(data, res)} :
           /\ err' = r.err
           /\ times' = r.times
           /\ usage' = r.usage
           /\ jobs' = r.jobs
           /\ idx' = r.idx
           /\ pc' = IF r.err = None THEN "make_plot" ELSE "failed"
    /\ UNCHANGED <<args, stdout, stderr, recon, data, data0, rerun, mapping,
                   msg, cur, res, node_hours,
                   code_nodehours, start_end, elapsed,
                   input, pos, attempts, commits>>

\* make_plot(title, times, nodes, name, jobs, color), with or without the
\* option --color
PlotUsage ==
    /\ pc = "make_plot"
    /\ \E color \in BOOLEAN :
          \E r \in {make_plot(jobs, color)} :
              /\ err' = r.err
              /\ start_end' = IF color THEN r.start_end ELSE start_end
              /\ pc' = IF r.err = None THEN "get_nodehours" ELSE "failed"
    /\ UNCHANGED <<args, stdout, stderr, recon, data, data0, rerun, mapping,
                   msg, cur, res, times, usage, jobs, idx, node_hours,
                   code_nodehours, elapsed,
                   input, pos, attempts, commits>>

GetNodehours ==
    /\ pc = "get_nodehours"
    /\ node_hours' = get_nodehours(data)
    /\ pc' = "done"
    /\ UNCHANGED <<args, stdout, stderr, recon, data, data0, rerun, mapping,
                   msg, cur, res, times, usage, jobs, idx, err,
                   code_nodehours, start_end, elapsed,
                   input, pos, attempts, commits>>

NextUsage == GetUsage \/ PlotUsage \/ GetNodehours

SpecUsage == InitUsage /\ [][NextUsage]_vars

(***************************************************************************)
(* Properties of the histogram stage                                       *)
(***************************************************************************)
\* The sum of the node counts of the records of d with index in S
RECURSIVE NodeSum(_, _)
NodeSum(d, S) ==
    IF S = {} THEN 0
    ELSE LET n == CHOOSE m \in S : TRUE
         IN  ParseInt(d[n].nnodes) + NodeSum(d, S \ {n})

\* get_usage has returned: the run is past it, or it failed in make_plot
\* (get_usage raises no KeyError)
Returned ==
    \/ pc \in {"make_plot", "get_nodehours", "done"}
    \/ pc = "failed" /\ err = "KeyError"

\* get_usage has returned or raised
Ended == Returned \/ pc = "failed"

\* floor(offset / step) with step = (max end - min start) / R, in exact
\* arithmetic
ExactIdx(t, d, R) == (t * R) \div d

\* The records whose span includes bucket k, by the exact bucket bounds
Spanning(d, R, k) ==
    LET begin == SetMin({r.start : r \in SeqRange(d)})
    IN  {n \in 1..Len(d) :
            /\ ExactIdx(d[n].start - begin, duration_of(d), R) <= k
            /\ k < ExactIdx(d[n].end - begin, duration_of(d), R)}

\* C1: for a record set with max(end) > min(start) and R >= 1, after
\* get_usage every bucket k in 0..R-1 holds the sum of nnodes over exactly
\* the records with floor(start_offset/step) <= k < floor(end_offset/step),
\* and that total is non-negative.
C1_BucketTotals ==
    (Ended /\ data # <<>> /\ res >= 1 /\ duration_of(data) > 0) =>
        /\ Returned
        /\ Len(usage) = res
        /\ \A k \in 0..(res - 1) :
              /\ usage[k + 1] = NodeSum(data, Spanning(data, res, k))
              /\ usage[k + 1] >= 0

\* C2 as stated: no bucket index computed for a record (its start index i
\* or its end index j) is negative or greater than R-1; an end index past
\* the last bucket is clamped to R-1.
C2_EndIndexClamped ==
    Returned =>
        \A n \in 1..Len(idx) :
            idx[n][1] \in 0..(res - 1) /\ idx[n][2] \in 0..(res - 1)

\* C2, amended: get_usage never indexes out of range: every bucket index k
\* it uses for a record (i <= k < j) lies in 0..R-1, the start index i is
\* never negative and the exclusive end index j never exceeds R (it is not
\* clamped to R-1).
C2_IndicesInRange ==
    /\ err # "IndexError"
    /\ Returned =>
          \A n \in 1..Len(idx) :
              /\ idx[n][1] >= 0
              /\ idx[n][2] <= res
              /\ \A k \in idx[n][1]..(idx[n][2] - 1) : k \in 0..(res - 1)

\* C2 witness: get_usage has filled buckets up to the last one for a record
\* whose end time is the global maximum end time.
C2_Witness ==
    /\ Returned
    /\ \E n \in 1..Len(idx) :
          /\ data[n].end = SetMax({r.end : r \in SeqRange(data)})
          /\ idx[n][1] < idx[n][2]
          /\ idx[n][2] = res

Scenario ==
    <<[jobname |-> <<"c", "o">>, nnodes |-> <<"2">>, start |-> 0,
       end |-> 3600],
      [jobname |-> <<"m", "o">>, nnodes |-> <<"3">>, start |-> 1800,
       end |-> 5400]>>

\* C3: for the records (0 s, 3600 s, 2 nodes) and (1800 s, 5400 s, 3 nodes)
\* with resolution 2, bucket 0 has node total 5 and the labels of both jobs,
\* bucket 1 has node total 3 and only the second job's label, and
\* get_nodehours yields 5.0.
C3_Scenario ==
    (data = Scenario /\ res = 2) =>
        /\ Ended =>
              /\ Returned
              /\ usage = <<5, 3>>
              /\ jobs = <<(<<(<<"c", "o">>), (<<"m", "o">>)>>),
                          (<<(<<"m", "o">>)>>)>>
        /\ pc = "done" => node_hours = 500

\* C3 witness: both functions have run on the scenario.
C3_Witness == data = Scenario /\ res = 2 /\ pc = "done"

\* C4: for any non-empty record set and any R >= 1 get_usage returns
\* exactly R midpoint times, R node totals and R label lists, also when
\* every record has start = end.
C4_BucketCount ==
    (Ended /\ data # <<>> /\ res >= 1) =>
        /\ Returned
        /\ Len(times) = res /\ Len(usage) = res /\ Len(jobs) = res

\* C5: get_usage ends in an error and returns no histogram whenever the
\* record list is empty or R is 0.
C5_FailsOnEmptyOrZero ==
    (Ended /\ (data = <<>> \/ res = 0)) =>
        /\ pc = "failed" /\ ~Returned
        /\ err \in {"ValueError", "ZeroDivisionError"}
        /\ times = <<>> /\ usage = <<>> /\ jobs = <<>>

\* C5 witness: get_usage has run on a non-empty record list with R = 0,
\* and on an empty list.
C5_Witness ==
    /\ pc = "failed"
    /\ \/ data # <<>> /\ res = 0 /\ err = "ZeroDivisionError"
       \/ data = <<>> /\ res > 0 /\ err = "ValueError"

\* The node-seconds of the records of d with index in S
RECURSIVE NodeSeconds(_, _)
NodeSeconds(d, S) ==
    IF S = {} THEN 0
    ELSE LET n == CHOOSE m \in S : TRUE
         IN  (d[n].end - d[n].start) * ParseInt(d[n].nnodes)
                 + NodeSeconds(d, S \ {n})

\* The list d in reverse order
Reversed(d) == [n \in 1..Len(d) |-> d[Len(d) + 1 - n]]

\* C12: get_nodehours returns the sum over the records of (end - start) *
\* nnodes, divided by 3600 and rounded once to the nearest hundredth (it is
\* within half a hundredth of the exact quotient), and the same value for
\* the records in another order.
C12_NodeHours ==
    pc = "done" =>
        LET x == NodeSeconds(data, 1..Len(data))
        IN  /\ 36 * node_hours - x \in -18..18
            /\ node_hours = get_nodehours(Reversed(data))

\* C12 witness: get_nodehours has run on two different records whose
\* node-hours are not a whole number of hundredths, alone or together.
C12_Witness ==
    /\ pc = "done"
    /\ Len(data) = 2
    /\ data[1] # data[2]
    /\ NodeSeconds(data, {1}) % 36 # 0
    /\ NodeSeconds(data, {2}) % 36 # 0
    /\ NodeSeconds(data, {1, 2}) % 36 # 0

(***************************************************************************)
(* gather_data (extract.py)                                                *)
(***************************************************************************)
fields == <<"jobid", "jobname", "nnodes", "submit", "start", "end", "state">>

Warning == "Conflicting JOB_TERMINATED record (COMPLETED)"

COMPLETED == <<"COMPLETED">>

\* s.lstrip(c)
RECURSIVE LStrip(_, _)
LStrip(s, c) == IF s # <<>> /\ s[1] = c THEN LStrip(Tail(s), c) ELSE s

\* s.strip(), for the blank
Strip(s) == LStrip(RStrip(s, " "), " ")

\* s.splitlines(): a final newline ends the last line and starts no other
splitlines(s) ==
    IF s = <<>> THEN <<>>
    ELSE Split(IF s[Len(s)] = "\n" THEN SubSeq(s, 1, Len(s) - 1) ELSE s, "\n")

\* sep.join(values)
RECURSIVE Join(_, _)
Join(values, sep) ==
    IF values = <<>> THEN <<>>
    ELSE IF Len(values) = 1 THEN values[1]
    ELSE values[1] \o <<sep>> \o Join(Tail(values), sep)

\* A dict, as the sequence of its <<key, value>> entries in insertion order
Keys(dct) == {dct[n][1] : n \in 1..Len(dct)}
DictGet(dct, k) == dct[CHOOSE n \in 1..Len(dct) : dct[n][1] = k][2]
\* DictPut that keeps the first value of a key (dict.setdefault)
DictPut_keep_first(dct, k, v) ==
    IF k \in {dct[n][1] : n \in 1..Len(dct)} THEN dct
    ELSE Append(dct, <<k, v>>)

DictPut(dct, k, v) ==
    IF k \in Keys(dct)
    THEN [n \in 1..Len(dct) |-> IF dct[n][1] = k THEN <<k, v>> ELSE dct[n]]
    ELSE Append(dct, <<k, v>>)

\* rec = {field: value for field, value in zip(fields, values)}
make_rec(values) ==
    LET m == IF Len(values) < Len(fields) THEN Len(values) ELSE Len(fields)
    IN  [f \in {fields[n] : n \in 1..m} |->
            values[CHOOSE n \in 1..m : fields[n] = f]]

\* The record of one line of sacct's output
parse_line(line) == make_rec(Split(Strip(line), ","))

\* The allow-list of failed jobs that gather_data keeps: args.failed counts
\* only when args.jobs is given.
failed_of(a) ==
    IF a.jobs = NoArg THEN <<>>
    ELSE IF a.failed # NoArg THEN Split(a.failed[1], ",")
    ELSE <<>>

\* One turn of the loop over the lines: the record goes to jobs when its id
\* has no step part, to steps under its job's id when it is a COMPLETED step.
collect_rec(acc, rec) ==
    LET tokens == Split(rec["jobid"], ".")
        id_ == tokens[1]
    IN  IF Len(tokens) = 1
        THEN [acc EXCEPT !.jobs = DictPut(@, id_, rec)]
        ELSE IF "state" \notin DOMAIN rec
        THEN [acc EXCEPT !.err = "KeyError"]
        ELSE IF rec["state"] = COMPLETED
        THEN [acc EXCEPT !.steps = DictPut(@, id_, rec)]
        ELSE acc

RECURSIVE collect(_, _)
collect(recs, acc) ==
    IF recs = <<>> \/ acc.err # None THEN acc
    ELSE collect(Tail(recs), collect_rec(acc, Head(recs)))

\* patch_job with a patch of every key of the step but its id
patch_job_all_keys(job, step) ==
    [f \in DOMAIN job |-> IF f = "jobid" THEN job[f] ELSE step[f]]

\* jobs[id_].update(patch)
patch_job(job, step) ==
    [f \in DOMAIN job \cup {"submit", "start", "end", "state"} |->
        IF f \in {"submit", "start", "end", "state"} THEN step[f] ELSE job[f]]

\* reconcile that returns the jobs most recent first
reconcile_reversed(recs, failed) ==
    LET c == collect(recs, [jobs |-> <<>>, steps |-> <<>>, err |-> None])
        patched == [n \in 1..Len(c.jobs) |->
                      LET id_ == c.jobs[n][1]
                          job == c.jobs[n][2]
                      IN  IF /\ job["state"] # COMPLETED
                             /\ id_ \in Keys(c.steps)
                          THEN <<id_, patch_job(job, DictGet(c.steps, id_))>>
                          ELSE c.jobs[n]]
        kept == SelectSeq([n \in 1..Len(patched) |-> patched[n][2]],
                    LAMBDA job :
                       \/ job["state"] = COMPLETED
                       \/ \E n \in 1..Len(failed) : job["jobid"] = failed[n])
    IN  [err |-> None, jobs |-> patched, steps |-> c.steps,
         data |-> [n \in 1..Len(kept) |-> kept[Len(kept) + 1 - n]]]

\* The reconciliation of the records of the lines, with the allow-list
\* failed: the exception raised, the dicts jobs and steps after patching,
\* and the returned list.
reconcile(recs, failed) ==
    LET c == collect(recs, [jobs |-> <<>>, steps |-> <<>>, err |-> None])
        fail(e) == [err |-> e, jobs |-> <<>>, steps |-> <<>>, data |-> <<>>]
    IN  IF c.err # None THEN fail(c.err)
        ELSE IF \E n \in 1..Len(c.jobs) : "state" \notin DOMAIN c.jobs[n][2]
        THEN fail("KeyError")
        ELSE CHOOSE r \in
               {[err |-> None, jobs |-> patched, steps |-> c.steps,
                 data |-> SelectSeq([n \in 1..Len(patched) |-> patched[n][2]],
                             LAMBDA job :
                                \/ job["state"] = COMPLETED
                                \/ \E n \in 1..Len(failed) :
                                      job["jobid"] = failed[n])] :
                  patched \in
                    {[n \in 1..Len(c.jobs) |->
                        LET id_ == c.jobs[n][1]
                            job == c.jobs[n][2]
                        IN  IF /\ job["state"] # COMPLETED
                               /\ id_ \in Keys(c.steps)
                            THEN <<id_, patch_job(job, DictGet(c.steps, id_))>>
                            ELSE c.jobs[n]]}} : TRUE

\* gather_data(args), given what sacct wrote
gather_data(a, out, errout) ==
    IF errout # <<>> /\ \A n \in 1..Len(errout) : errout[n] # Warning
    THEN [err |-> "OSError", jobs |-> <<>>, steps |-> <<>>, data |-> <<>>]
    ELSE LET lines == splitlines(out)
         IN  reconcile([n \in 1..Len(lines) |-> parse_line(lines[n])],
                       failed_of(a))

(***************************************************************************)
(* convert_times (extract.py)                                              *)
(*                                                                         *)
(* A datetime is the record [year, month, day, hour, minute, second].      *)
(***************************************************************************)
Digits == {"0", "1", "2", "3", "4", "5", "6", "7", "8", "9"}

\* s is a string of one to width decimal digits
IsNumber(s, width) ==
    /\ Len(s) \in 1..width
    /\ \A n \in 1..Len(s) : s[n] \in Digits

\* The number of days of a month of the proleptic Gregorian calendar
days_in_month(year, month) ==
    IF month = 2
    THEN IF year % 4 = 0 /\ (year % 100 # 0 \/ year % 400 = 0) THEN 29 ELSE 28
    ELSE IF month \in {4, 6, 9, 11} THEN 30 ELSE 31

\* datetime.datetime.strptime(s, '%Y-%m-%dT%H:%M:%S'): the datetime, or the
\* ValueError of a string that does not match the format (the letter T is
\* matched in either case, %Y is four digits, the other fields one or two,
\* %d also a blank and a digit) or that names no date and time
strptime(s) ==
    LET fail == [err |-> "ValueError", value |-> <<>>]
        halves == IF \E n \in 1..Len(s) : s[n] = "T" THEN Split(s, "T")
                  ELSE Split(s, "t")
    IN  IF Len(halves) # 2 THEN fail
        ELSE LET date == Split(halves[1], "-")
                 time == Split(halves[2], ":")
             IN  IF Len(date) # 3 \/ Len(time) # 3 THEN fail
                 ELSE LET d == IF Len(date[3]) = 2 /\ date[3][1] = " "
                               THEN Tail(date[3]) ELSE date[3]
                      IN  IF ~ /\ Len(date[1]) = 4 /\ IsNumber(date[1], 4)
                               /\ IsNumber(date[2], 2) /\ IsNumber(d, 2)
                               /\ \A n \in 1..3 : IsNumber(time[n], 2)
                          THEN fail
                          ELSE LET v == [year |-> ParseInt(date[1]),
                                         month |-> ParseInt(date[2]),
                                         day |-> ParseInt(d),
                                         hour |-> ParseInt(time[1]),
                                         minute |-> ParseInt(time[2]),
                                         second |-> ParseInt(time[3])]
                               IN  IF /\ v.year >= 1
                                      /\ v.month \in 1..12
                                      /\ v.day \in
                                            1..days_in_month(v.year, v.month)
                                      /\ v.hour \in 0..23
                                      /\ v.minute \in 0..59
                                      /\ v.second \in 0..59
                                   THEN [err |-> None, value |-> v]
                                   ELSE fail

\* The assignments of convert_times, in the order in which it makes them:
\* <<position of the datum, field>>
time_fields == <<"end", "start", "submit">>
conversions(d) ==
    [k \in 1..(3 * Len(d)) |->
        <<((k - 1) \div 3) + 1, time_fields[((k - 1) % 3) + 1]>>]

\* convert_times(data) from its k-th assignment on: the exception raised,
\* or None, and data as the assignments made so far have left it
RECURSIVE convert_times_from(_, _)
convert_times_from(d, k) ==
    IF k > 3 * Len(d) THEN [err |-> None, data |-> d]
    ELSE LET n == conversions(d)[k][1]
             field == conversions(d)[k][2]
         IN  IF field \notin DOMAIN d[n]
             THEN [err |-> "KeyError", data |-> d]
             ELSE LET t == strptime(d[n][field])
                  IN  IF t.err # None THEN [err |-> t.err, data |-> d]
                      ELSE convert_times_from(
                              [d EXCEPT ![n] =
                                  [d[n] EXCEPT ![field] = t.value]], k + 1)

convert_times(d) == convert_times_from(d, 1)

(***************************************************************************)
(* Specification of the gathering stage: gather_data, then the             *)
(* reconciliation once more on what it returned.                           *)
(***************************************************************************)
\* The ids of sacct's rows: two jobs, and two steps of the first job
JobIds == {<<"1">>, <<"2">>, <<"1", ".", "0">>, <<"1", ".", "1">>}

JobStates == {"COMPLETED", "FAILED", "NODE_FAIL"}

\* The row that sacct prints for an id in a state
SacctRow(id, state) ==
    LET rest ==
          CASE id = <<"1">> ->
                 <<(<<"coaddDriver">>), (<<"2">>),
                   <<"2", "0", "1", "8", "-", "0", "3", "-", "0", "1",
                   "T", "1", "0", ":", "0", "0", ":", "0", "0">>,
                   <<"2", "0", "1", "8", "-", "0", "3", "-", "0", "1",
                   "T", "1", "0", ":", "0", "5", ":", "0", "0">>,
                   <<"2", "0", "1", "8", "-", "0", "3", "-", "0", "1",
                   "T", "1", "1", ":", "0", "5", ":", "0", "0">>>>
            [] id = <<"2">> ->
                 <<(<<"mosaic">>), (<<"3">>),
                   <<"2", "0", "1", "8", "-", "0", "3", "-", "0", "2",
                   "T", "0", "8", ":", "0", "0", ":", "0", "0">>,
                   <<"2", "0", "1", "8", "-", "0", "3", "-", "0", "2",
                   "T", "0", "8", ":", "3", "0", ":", "0", "0">>,
                   <<"2", "0", "1", "8", "-", "0", "3", "-", "0", "2",
                   "T", "0", "9", ":", "3", "0", ":", "0", "0">>>>
            [] id = <<"1", ".", "0">> ->
                 <<(<<"batch">>), (<<"1">>),
                   <<"2", "0", "1", "8", "-", "0", "3", "-", "0", "3",
                   "T", "1", "2", ":", "0", "0", ":", "0", "0">>,
                   <<"2", "0", "1", "8", "-", "0", "3", "-", "0", "3",
                   "T", "1", "2", ":", "0", "1", ":", "0", "0">>,
                   <<"2", "0", "1", "8", "-", "0", "3", "-", "0", "3",
                   "T", "1", "3", ":", "0", "0", ":", "0", "0">>>>
            [] id = <<"1", ".", "1">> ->
                 <<(<<"orted">>), (<<"4">>),
                   <<"2", "0", "1", "8", "-", "0", "3", "-", "0", "4",
                   "T", "1", "5", ":", "0", "0", ":", "0", "0">>,
                   <<"2", "0", "1", "8", "-", "0", "3", "-", "0", "4",
                   "T", "1", "5", ":", "0", "2", ":", "0", "0">>,
                   <<"2", "0", "1", "8", "-", "0", "3", "-", "0", "4",
                   "T", "1", "6", ":", "0", "0", ":", "0", "0">>>>
    IN  Join(<<id>> \o rest \o <<(<<state>>)>>, ",")

\* The sequences of at most MaxLines rows with distinct ids
IdLists ==
    {s \in UNION {[1..n -> JobIds] : n \in 0..MaxLines} :
        \A p, q \in 1..Len(s) : p # q => s[p] # s[q]}

ArgSets ==
    {[jobs |-> m[1], users |-> m[2], failed |-> f] :
        m \in {<<NoArg, NoArg>>, <<NoArg, Arg(<<"u1">>)>>,
               <<Arg(<<"1", ",", "2">>), NoArg>>},
        f \in {NoArg, Arg(<<"2">>), Arg(<<"1", ",", "2">>)}}

StdErrs ==
    {<<>>, <<Warning>>, <<"sacct: error: slurmdbd is down">>,
     <<Warning, "sacct: error: slurmdbd is down">>}

InitGather ==
    /\ pc = "gather_data"
    /\ args \in ArgSets
    /\ \E ids \in IdLists :
          \E sts \in [1..Len(ids) -> JobStates] :
              stdout = Flatten([n \in 1..Len(ids) |->
                                   SacctRow(ids[n], sts[n]) \o <<"\n">>])
    /\ stderr \in StdErrs
    /\ recon = <<>> /\ data = <<>> /\ data0 = <<>> /\ rerun = <<>>
    /\ mapping = <<>> /\ msg = <<>> /\ cur = 0 /\ res = 0
    /\ times = <<>> /\ usage = <<>> /\ jobs = <<>> /\ idx = <<>>
    /\ node_hours = -1 /\ err = None
    /\ code_nodehours = <<>> /\ start_end = <<>> /\ elapsed = <<>>
    /\ input = <<>> /\ pos = 0 /\ attempts = <<>> /\ commits = 0

GatherData ==
    /\ pc = "gather_data"
    /\ \E r \in {gather_data(args, stdout, stderr)} :
           /\ err' = r.err
           /\ data' = r.data
           /\ recon' = [jobs |-> r.jobs, steps |-> r.steps]
           /\ pc' = IF r.err = None THEN "gathered" ELSE "failed"
    /\ UNCHANGED <<args, stdout, stderr, data0, rerun, mapping, msg, cur,
                   res, times, usage, jobs, idx, node_hours,
                   code_nodehours, start_end, elapsed,
                   input, pos, attempts, commits>>

Rerun ==
    /\ pc = "gathered"
    /\ \E r \in {reconcile(data, failed_of(args))} :
           rerun' = [err |-> r.err, data |-> r.data]
    /\ pc' = "rerun"
    /\ UNCHANGED <<args, stdout, stderr, recon, data, data0, mapping, msg,
                   cur, res, times, usage, jobs, idx, node_hours, err,
                   code_nodehours, start_end, elapsed,
                   input, pos, attempts, commits>>

\* convert_times(data), on what gather_data returned: data is converted in
\* place, up to the field that raises
ConvertTimes ==
    /\ pc = "gathered"
    /\ \E r \in {convert_times(data)} :
           /\ err' = r.err
           /\ data' = r.data
           /\ pc' = IF r.err = None THEN "convert_names" ELSE "failed"
    /\ UNCHANGED <<args, stdout, stderr, recon, data0, rerun, mapping, msg,
                   cur, res, times, usage, jobs, idx, node_hours,
                   code_nodehours, start_end, elapsed,
                   input, pos, attempts, commits>>

NextGather == GatherData \/ Rerun \/ ConvertTimes

SpecGather == InitGather /\ [][NextGather]_vars

(***************************************************************************)
(* Properties of the gathering stage                                       *)
(***************************************************************************)
Gathered == pc \in {"gathered", "rerun"}

\* The rows that sacct printed, as records
InRows ==
    LET lines == splitlines(stdout)
    IN  [n \in 1..Len(lines) |-> parse_line(lines[n])]

\* A top-level job has no step separator in its id
IsTop(rec) == \A n \in 1..Len(rec["jobid"]) : rec["jobid"][n] # "."

\* The id of the job of a row: the id up to the first separator
JobOf(rec) ==
    LET id == rec["jobid"]
        dots == {n \in 1..Len(id) : id[n] = "."}
    IN  IF dots = {} THEN id ELSE SubSeq(id, 1, SetMin(dots) - 1)

\* The positions of the COMPLETED steps of job id in sacct's output
CompletedSteps(id) ==
    {n \in 1..Len(InRows) :
        /\ ~IsTop(InRows[n])
        /\ JobOf(InRows[n]) = id
        /\ InRows[n]["state"] = COMPLETED}

TopRows == {InRows[n] : n \in {m \in 1..Len(InRows) : IsTop(InRows[m])}}

\* The state of a top-level job after patching
PatchedState(rec) ==
    IF CompletedSteps(rec["jobid"]) # {} THEN COMPLETED ELSE rec["state"]

\* The allow-list of failed jobs that the caller supplied (--failed)
CallerAllowList ==
    IF args.failed = NoArg THEN {}
    ELSE LET s == args.failed[1]
             cuts == {0, Len(s) + 1} \cup {n \in 1..Len(s) : s[n] = ","}
         IN  {SubSeq(s, c[1] + 1, c[2] - 1) :
                 c \in {d \in cuts \X cuts :
                           /\ d[1] < d[2]
                           /\ \A e \in cuts : ~(d[1] < e /\ e < d[2])}}

\* C6: the returned list holds exactly the top-level job records whose
\* state after patching is COMPLETED, together with the top-level records
\* whose id is in the caller's allow-list of failed jobs; no step record and
\* no other non-COMPLETED job is in it.
C6_ReturnedJobs ==
    Gathered =>
        /\ \A n \in 1..Len(data) : IsTop(data[n])
        /\ \A n \in 1..Len(data) :
              \/ data[n]["state"] = COMPLETED
              \/ data[n]["jobid"] \in CallerAllowList
        /\ {data[n]["jobid"] : n \in 1..Len(data)} =
              {r["jobid"] : r \in {t \in TopRows :
                                      \/ PatchedState(t) = COMPLETED
                                      \/ t["jobid"] \in CallerAllowList}}
        /\ \A p, q \in 1..Len(data) :
              p # q => data[p]["jobid"] # data[q]["jobid"]

\* C7: a top-level job that is not COMPLETED and has a COMPLETED step gets
\* that step's submit, start, end and state and keeps its jobid, jobname
\* and nnodes; a job that is COMPLETED or has no COMPLETED step is left
\* unchanged (non-COMPLETED steps patch nothing); the returned records are
\* these patched records.
C7_PatchFrame ==
    Gathered =>
        /\ \A r \in TopRows :
              LET job == DictGet(recon.jobs, r["jobid"])
              IN  IF r["state"] # COMPLETED /\ CompletedSteps(r["jobid"]) # {}
                  THEN /\ \E m \in CompletedSteps(r["jobid"]) :
                             \A f \in {"submit", "start", "end", "state"} :
                                 job[f] = InRows[m][f]
                       /\ job["state"] = COMPLETED
                       /\ \A f \in {"jobid", "jobname", "nnodes"} :
                             job[f] = r[f]
                       /\ DOMAIN job = DOMAIN r
                  ELSE job = r
        /\ \A n \in 1..Len(data) :
              data[n] = DictGet(recon.jobs, data[n]["jobid"])

\* C7 witness: a job that was not COMPLETED has been patched from its
\* COMPLETED step and returned.
C7_Witness ==
    /\ pc = "gathered"
    /\ \E r \in TopRows :
          /\ r["state"] # COMPLETED
          /\ CompletedSteps(r["jobid"]) # {}
          /\ \E n \in 1..Len(data) :
                data[n]["jobid"] = r["jobid"] /\ data[n]["state"] = COMPLETED

\* C8: the reconciliation of the reconciled list, with the same allow-list,
\* is the same list of records, in the same order with the same fields.
C8_Idempotent ==
    pc = "rerun" => rerun.err = None /\ rerun.data = data

\* C8 witness: the reconciliation has run again on a list of two records,
\* one patched from a step and one kept by the allow-list.
C8_Witness ==
    /\ pc = "rerun"
    /\ Len(data) = 2
    /\ \E n \in 1..Len(data) : data[n]["state"] # COMPLETED
    /\ \E n \in 1..Len(data) :
          \E r \in TopRows : r["jobid"] = data[n]["jobid"] /\ r # data[n]

\* C9: when several COMPLETED steps share a job id, the failed job is
\* patched from the one that comes last in sacct's output; the earlier ones
\* have no effect.
C9_LastStepWins ==
    Gathered =>
        \A r \in TopRows :
            (r["state"] # COMPLETED /\ CompletedSteps(r["jobid"]) # {}) =>
                LET last == SetMax(CompletedSteps(r["jobid"]))
                    job == DictGet(recon.jobs, r["jobid"])
                IN  /\ \A f \in {"submit", "start", "end", "state"} :
                          job[f] = InRows[last][f]
                    /\ \E n \in 1..Len(data) : data[n] = job

\* C9 witness: a failed job with two COMPLETED steps has been reconciled.
C9_Witness ==
    /\ pc = "gathered"
    /\ \E r \in TopRows :
          /\ r["state"] # COMPLETED
          /\ Cardinality(CompletedSteps(r["jobid"])) >= 2

(***************************************************************************)
(* convert_names (extract.py)                                              *)
(*                                                                         *)
(* A mapping key is a regular expression: a sequence of characters in      *)
(* which "." stands for any character and any other character for itself.  *)
(***************************************************************************)
unknown == <<"unknown">>

\* re.match(core, name) is not None: core matches at the start of name
re_match(core, name) ==
    /\ Len(core) <= Len(name)
    /\ \A n \in 1..Len(core) :
          \/ core[n] = "." /\ name[n] # "\n"
          \/ core[n] = name[n]

\* match[0]: the text that core matched
matched_text(core, name) == SubSeq(name, 1, Len(core))

\* matches = [match[0] for match in matches if match], in the order of the
\* keys of the mapping
matches_of(name, m) ==
    LET hits == SelectSeq([n \in 1..Len(m) |-> m[n][1]],
                          LAMBDA core : re_match(core, name))
    IN  [n \in 1..Len(hits) |-> matched_text(hits[n], name)]

\* The message of the RuntimeError
ambiguity_msg(matches, name) ==
    <<"ERROR: Ambiguous mapping: following keys \"">>
        \o Join(matches, ", ")
        \o <<"\" can be mapped to \"">> \o name \o <<"\".">>

\* The conversion of one name: the exception raised and its message, or
\* the code name
convert_name(name, m) ==
    LET matches == matches_of(name, m)
    IN  IF Len(matches) = 0
        THEN [err |-> None, msg |-> <<>>, code |-> unknown]
        ELSE IF Len(matches) = 1
        THEN IF matches[1] \in Keys(m)
             THEN [err |-> None, msg |-> <<>>,
                   code |-> DictGet(m, matches[1])]
             ELSE [err |-> "KeyError", msg |-> matches[1], code |-> <<>>]
        ELSE [err |-> "RuntimeError", msg |-> ambiguity_msg(matches, name),
              code |-> <<>>]

\* convert_names(data, mapping) from position n on: the names are replaced
\* in place up to the first exception.
RECURSIVE convert_from(_, _, _)
convert_from(d, m, n) ==
    IF n > Len(d) THEN [err |-> None, msg |-> <<>>, data |-> d, cur |-> n]
    ELSE LET c == convert_name(d[n]["jobname"], m)
         IN  IF c.err # None
             THEN [err |-> c.err, msg |-> c.msg, data |-> d, cur |-> n]
             ELSE convert_from([d EXCEPT ![n]["jobname"] = c.code], m, n + 1)

convert_names(d, m) == convert_from(d, m, 1)

(***************************************************************************)
(* Specification of the classification stage                               *)
(***************************************************************************)
NameChars == {"c", "o"}
KeyChars == {"c", "o", "."}
CodeNames == {<<"coadd">>, <<"mosaic">>}

JobNames == [1..2 -> NameChars]
KeyPatterns == [1..1 -> KeyChars] \cup [1..2 -> KeyChars]

\* The mappings of at most MaxKeys distinct keys
Mappings ==
    {m \in UNION {[1..n -> KeyPatterns \X CodeNames] : n \in 0..MaxKeys} :
        \A p, q \in 1..Len(m) : p # q => m[p][1] # m[q][1]}

InitNames ==
    /\ pc = "convert_names"
    /\ mapping \in Mappings
    /\ \E names \in UNION {[1..n -> JobNames] : n \in 0..MaxNames} :
          data = [n \in 1..Len(names) |-> [jobname |-> names[n]]]
    /\ data0 = data
    /\ args = <<>> /\ stdout = <<>> /\ stderr = <<>> /\ recon = <<>>
    /\ rerun = <<>> /\ msg = <<>> /\ cur = 0 /\ res = 0
    /\ times = <<>> /\ usage = <<>> /\ jobs = <<>> /\ idx = <<>>
    /\ node_hours = -1 /\ err = None
    /\ code_nodehours = <<>> /\ start_end = <<>> /\ elapsed = <<>>
    /\ input = <<>> /\ pos = 0 /\ attempts = <<>> /\ commits = 0

ConvertNames ==
    /\ pc = "convert_names"
    /\ \E r \in {convert_names(data, mapping)} :
           /\ err' = r.err
           /\ msg' = r.msg
           /\ data' = r.data
           /\ cur' = r.cur
           /\ pc' = IF r.err = None THEN "converted" ELSE "failed"
    /\ UNCHANGED <<args, stdout, stderr, recon, data0, rerun, mapping, res,
                   times, usage, jobs, idx, node_hours,
                   code_nodehours, start_end, elapsed,
                   input, pos, attempts, commits>>

NextNames == ConvertNames

SpecNames == InitNames /\ [][NextNames]_vars

(***************************************************************************)
(* Properties of the classification stage                                  *)
(***************************************************************************)
\* The keys of the mapping that match a name, in the order of the mapping
MatchingKeys(name) ==
    SelectSeq([n \in 1..Len(mapping) |-> mapping[n][1]],
              LAMBDA core : re_match(core, name))

\* C10: a name that matches none of the mapping keys is relabelled
\* 'unknown'; a name that matches two or more keys raises the ambiguity
\* error, which names the job name and the matching keys, and is not
\* relabelled.  (The names after the one that raised are not converted.)
C10_UnknownOrAmbiguous ==
    pc \in {"converted", "failed"} =>
        \A n \in 1..Len(data0) :
            n <= cur =>
                LET name == data0[n]["jobname"]
                    keys == MatchingKeys(name)
                IN  /\ Len(keys) = 0 =>
                          n < cur /\ data[n]["jobname"] = unknown
                    /\ Len(keys) >= 2 =>
                          /\ n = cur
                          /\ err = "RuntimeError"
                          /\ msg = ambiguity_msg(keys, name)
                          /\ data[n]["jobname"] = name

\* C11: a name that matches exactly one key of the mapping, a literal
\* prefix or a regular expression, is relabelled with the code name that the
\* mapping gives to that key, and no error is raised for it.
C11_SingleMatch ==
    pc \in {"converted", "failed"} =>
        \A n \in 1..Len(data0) :
            n <= cur =>
                LET name == data0[n]["jobname"]
                    keys == MatchingKeys(name)
                IN  Len(keys) = 1 =>
                        /\ n < cur
                        /\ data[n]["jobname"] = DictGet(mapping, keys[1])

(***************************************************************************)
(* get_codehours (process.py)                                              *)
(***************************************************************************)
\* dict.fromkeys(job_type, 0.0): the distinct names, in the order of their
\* first record
RECURSIVE fromkeys(_, _)
fromkeys(job_type, dct) ==
    IF job_type = <<>> THEN dct
    ELSE fromkeys(Tail(job_type),
                  IF Head(job_type) \in Keys(dct) THEN dct
                  ELSE Append(dct, <<Head(job_type), 0>>))

\* code_seconds without the node counts: the sum of dur
code_seconds_no_nodes(d, name) ==
    SumSeq([n \in 1..Len(d) |->
               IF d[n].jobname = name THEN d[n].end - d[n].start ELSE 0])

\* code_nodehours[name] after the loop: the sum of dur*node over the records
\* of that name
code_seconds(d, name) ==
    SumSeq([n \in 1..Len(d) |->
               IF d[n].jobname = name
               THEN (d[n].end - d[n].start) * ParseInt(d[n].nnodes)
               ELSE 0])

\* get_codehours(data): the dict of the node-hours of every name, in
\* hundredths
get_codehours(d) ==
    LET init == fromkeys([n \in 1..Len(d) |-> d[n].jobname], <<>>)
    IN  [n \in 1..Len(init) |->
            <<init[n][1], round2(code_seconds(d, init[n][1]))>>]

(***************************************************************************)
(* Specification of the per-code node-hours: get_codehours on accounting   *)
(* data whose names are code names.                                        *)
(***************************************************************************)
NodeCounts == {<<"2">>, <<"3">>}

CodeRecords(u) ==
    {r \in {[jobname |-> c, nnodes |-> k, start |-> u * a, end |-> u * b] :
               c \in CodeNames, k \in NodeCounts,
               a \in 0..MaxTicks, b \in 0..MaxTicks} :
        r.start <= r.end}

InitHours ==
    /\ pc = "get_codehours"
    /\ \E u \in TimeUnits :
          data \in UNION {[1..n -> CodeRecords(u)] : n \in 0..MaxRecs}
    /\ args = <<>> /\ stdout = <<>> /\ stderr = <<>> /\ recon = <<>>
    /\ data0 = <<>> /\ rerun = <<>> /\ mapping = <<>> /\ msg = <<>>
    /\ cur = 0 /\ res = 0
    /\ times = <<>> /\ usage = <<>> /\ jobs = <<>> /\ idx = <<>>
    /\ node_hours = -1 /\ err = None
    /\ code_nodehours = <<>> /\ start_end = <<>> /\ elapsed = <<>>
    /\ input = <<>> /\ pos = 0 /\ attempts = <<>> /\ commits = 0

GetCodehours ==
    /\ pc = "get_codehours"
    /\ code_nodehours' = get_codehours(data)
    /\ pc' = "codehours_done"
    /\ UNCHANGED <<args, stdout, stderr, recon, data, data0, rerun, mapping,
                   msg, cur, res, times, usage, jobs, idx, node_hours, err,
                   start_end, elapsed,
                   input, pos, attempts, commits>>

NextHours == GetCodehours

SpecHours == InitHours /\ [][NextHours]_vars

(***************************************************************************)
(* Properties of the per-code node-hours                                   *)
(***************************************************************************)
\* C13: the keys of get_codehours' mapping are exactly the code names of
\* the records, each once, and the value of a code name is the sum of
\* (end - start) * nnodes over its records, divided by 3600 and rounded to
\* the nearest hundredth on its own.
C13_CodeHours ==
    pc = "codehours_done" =>
        /\ Keys(code_nodehours) = {data[n].jobname : n \in 1..Len(data)}
        /\ Cardinality(Keys(code_nodehours)) = Len(code_nodehours)
        /\ \A n \in 1..Len(code_nodehours) :
              LET name == code_nodehours[n][1]
                  x == NodeSeconds(data, {m \in 1..Len(data) :
                                             data[m].jobname = name})
              IN  36 * code_nodehours[n][2] - x \in -18..18

\* C13 witness: get_codehours has run on records of two code names whose
\* rounded node-hours do not add up to the rounded total.
C13_Witness ==
    /\ pc = "codehours_done"
    /\ Len(code_nodehours) = 2
    /\ code_nodehours[1][2] + code_nodehours[2][2] # get_nodehours(data)

(***************************************************************************)
(* Specification of the span extraction: get_first_last on the label lists *)
(* of at most MaxBuckets buckets.                                          *)
(***************************************************************************)
MaxBuckets == 8

\* The label lists of one bucket
BucketLabels ==
    {<<>>, <<(<<"coadd">>)>>, <<(<<"mosaic">>)>>,
     <<(<<"mosaic">>), (<<"coadd">>), (<<"mosaic">>)>>}

InitSpans ==
    /\ pc = "get_first_last"
    /\ jobs \in UNION {[1..n -> BucketLabels] : n \in 0..MaxBuckets}
    /\ args = <<>> /\ stdout = <<>> /\ stderr = <<>> /\ recon = <<>>
    /\ data = <<>> /\ data0 = <<>> /\ rerun = <<>> /\ mapping = <<>>
    /\ msg = <<>> /\ cur = 0 /\ res = 0
    /\ times = <<>> /\ usage = <<>> /\ idx = <<>>
    /\ node_hours = -1 /\ err = None
    /\ code_nodehours = <<>> /\ start_end = <<>> /\ elapsed = <<>>
    /\ input = <<>> /\ pos = 0 /\ attempts = <<>> /\ commits = 0

GetFirstLast ==
    /\ pc = "get_first_last"
    /\ start_end' = get_first_last(jobs)
    /\ pc' = "spans_done"
    /\ UNCHANGED <<args, stdout, stderr, recon, data, data0, rerun, mapping,
                   msg, cur, res, times, usage, jobs, idx, node_hours, err,
                   code_nodehours, elapsed,
                   input, pos, attempts, commits>>

NextSpans == GetFirstLast

SpecSpans == InitSpans /\ [][NextSpans]_vars

(***************************************************************************)
(* Properties of the span extraction                                       *)
(***************************************************************************)
\* The bucket indices at which a label appears
LabelAt(lab) ==
    {k \in 0..(Len(jobs) - 1) : \E q \in 1..Len(jobs[k + 1]) :
                                    jobs[k + 1][q] = lab}

AllLabels == UNION {SeqRange(jobs[n]) : n \in 1..Len(jobs)}

\* The spans that get_first_last returned for a label
SpansOf(lab) == DictGet(start_end, lab)

\* C15: for every label of the bucket lists get_first_last returns an
\* ordered list of disjoint spans (s, e) with s <= e, whose union is exactly
\* the set of the bucket indices at which the label appears and each of
\* which is a maximal run; a label at the indices {0,1,3,4,7} gets the
\* spans [(0,1),(3,4),(7,7)].
C15_MaximalRuns ==
    pc = "spans_done" =>
        /\ Keys(start_end) = AllLabels
        /\ Cardinality(AllLabels) = Len(start_end)
        /\ \A lab \in AllLabels :
              LET sp == SpansOf(lab)
                  at == LabelAt(lab)
              IN  /\ \A p \in 1..Len(sp) : sp[p][1] <= sp[p][2]
                  /\ \A p, q \in 1..Len(sp) : p < q => sp[p][2] < sp[q][1]
                  /\ UNION {sp[p][1]..sp[p][2] : p \in 1..Len(sp)} = at
                  /\ \A p \in 1..Len(sp) :
                        sp[p][1] - 1 \notin at /\ sp[p][2] + 1 \notin at
                  /\ at = {0, 1, 3, 4, 7} =>
                        sp = <<(<<0, 1>>), (<<3, 4>>), (<<7, 7>>)>>

\* C15 witness: get_first_last has run on bucket lists in which a label
\* appears at the indices {0,1,3,4,7}.
C15_Witness ==
    /\ pc = "spans_done"
    /\ \E lab \in AllLabels : LabelAt(lab) = {0, 1, 3, 4, 7}

\* True when the bucket indices a and b of a label lie in one span
SameSpan(lab, a, b) ==
    \E p \in 1..Len(SpansOf(lab)) :
        /\ a \in SpansOf(lab)[p][1]..SpansOf(lab)[p][2]
        /\ b \in SpansOf(lab)[p][1]..SpansOf(lab)[p][2]

\* C16 as stated: a gap of a single bucket (one bucket without the label
\* between two buckets that carry it) does not split the run: the two
\* buckets lie in one span.
C16_SingleGapContinuous ==
    pc = "spans_done" =>
        \A lab \in AllLabels :
            \A k \in 0..(Len(jobs) - 1) :
                (k - 1 \in LabelAt(lab) /\ k \notin LabelAt(lab)
                   /\ k + 1 \in LabelAt(lab)) => SameSpan(lab, k - 1, k + 1)

\* C16, amended: get_first_last starts a new span exactly when two
\* consecutive sorted bucket indices of a label differ by more than 1: any
\* gap splits the run, a gap of a single bucket included, which ends a span
\* before it and starts one after it.
C16_SplitsOnEveryGap ==
    pc = "spans_done" =>
        \A lab \in AllLabels :
            \A a, b \in LabelAt(lab) :
                (a < b /\ \A c \in LabelAt(lab) : ~(a < c /\ c < b)) =>
                    /\ SameSpan(lab, a, b) <=> b - a = 1
                    /\ b - a > 1 =>
                          \E p \in 1..(Len(SpansOf(lab)) - 1) :
                              /\ SpansOf(lab)[p][2] = a
                              /\ SpansOf(lab)[p + 1][1] = b

\* C16 witness: get_first_last has run on bucket lists in which a label
\* has a gap of a single bucket.
C16_Witness ==
    /\ pc = "spans_done"
    /\ \E lab \in AllLabels :
          \E k \in 0..(Len(jobs) - 1) :
              /\ k - 1 \in LabelAt(lab)
              /\ k \notin LabelAt(lab)
              /\ k + 1 \in LabelAt(lab)

(***************************************************************************)
(* usageplot.py: get_first_last and get_elapsed on the histogram that      *)
(* usage.py wrote out.                                                     *)
(*                                                                         *)
(* A time is the exact fraction <<num, den>> of an hour of which the       *)
(* double is an approximation; the times of one histogram have the same    *)
(* denominator.  A dict built from set(JOB_MAPPING.values()) has no        *)
(* defined order and is a function on the code names.                      *)
(***************************************************************************)
JOB_MAPPING ==
    <<(<<(<<"W", "i">>), (<<"singleFrame">>)>>),
      (<<(<<"C", "o">>), (<<"singleFrame">>)>>),
      (<<(<<"m", "o">>), (<<"mosaic">>)>>),
      (<<(<<"c", "o">>), (<<"coadd">>)>>),
      (<<(<<"m", "t">>), (<<"multiband">>)>>)>>

\* set(JOB_MAPPING.values())
JobCodes == {JOB_MAPPING[n][2] : n \in 1..Len(JOB_MAPPING)}

\* word[:2]
prefix2(word) == SubSeq(word, 1, IF Len(word) < 2 THEN Len(word) ELSE 2)

\* JOB_MAPPING.get(key, 'unknown')
code_of(key) ==
    IF key \in Keys(JOB_MAPPING) THEN DictGet(JOB_MAPPING, key) ELSE unknown

\* The keys of abrev_jobs (or of names): the prefixes of the labels, in the
\* order of their first occurrence
abrev_keys(jobs_) ==
    LET words == Flatten(jobs_)
    IN  first_seen([n \in 1..Len(words) |-> prefix2(words[n])], <<>>)

\* abrev_jobs[key]: the number of labels of all buckets that start with key
abrev_count(jobs_, key) ==
    LET words == Flatten(jobs_)
    IN  Cardinality({n \in 1..Len(words) : prefix2(words[n]) = key})

\* abrev_count that counts a key once per bucket
abrev_count_buckets(jobs_, key) ==
    Cardinality({n \in 1..Len(jobs_) :
                    \E q \in 1..Len(jobs_[n]) : prefix2(jobs_[n][q]) = key})

\* get_elapsed(times, jobs): the exception raised, or None and the dict
\* elapsed
get_elapsed(times_, jobs_) ==
    IF Len(times_) < 2 THEN [err |-> "IndexError", elapsed |-> <<>>]
    ELSE LET dt == times_[2][1] - times_[1][1]
             den == times_[1][2]
             keys == abrev_keys(jobs_)
         IN  IF \E n \in 1..Len(keys) : code_of(keys[n]) \notin JobCodes
             THEN [err |-> "KeyError", elapsed |-> <<>>]
             ELSE [err |-> None,
                   elapsed |->
                     [c \in JobCodes |->
                        <<SumSeq([n \in 1..Len(keys) |->
                                    IF code_of(keys[n]) = c
                                    THEN abrev_count(jobs_, keys[n]) * dt
                                    ELSE 0]), den>>]]

\* usageplot's get_nodehours(times, nodes): the exception raised, or None
\* and np.sum(dt * nodes), in hours as a fraction <<numerator, denominator>>
usageplot_get_nodehours(times_, nodes_) ==
    IF Len(times_) < 2 THEN [err |-> "IndexError", node_hours |-> -1]
    ELSE LET dt == times_[2][1] - times_[1][1]
             den == times_[1][2]
         IN  [err |-> None, node_hours |-> <<SumSeq(nodes_) * dt, den>>]

\* names[key] of usageplot's get_first_last: the idx whose list holds a
\* label that starts with key
prefix_indices(jobs_, key) ==
    {n - 1 : n \in {m \in 1..Len(jobs_) :
                       \E q \in 1..Len(jobs_[m]) :
                           prefix2(jobs_[m][q]) = key}}

\* usageplot's get_first_last(jobs): the exception raised, or None and the
\* dict start_end
usageplot_get_first_last(jobs_) ==
    LET keys == abrev_keys(jobs_)
    IN  IF \E n \in 1..Len(keys) : code_of(keys[n]) \notin JobCodes
        THEN [err |-> "KeyError", start_end |-> <<>>]
        ELSE [err |-> None,
              start_end |->
                [c \in JobCodes |->
                   zip_pairs(edges_of(sorted(
                      UNION {prefix_indices(jobs_, keys[n]) :
                                n \in {m \in 1..Len(keys) :
                                          code_of(keys[m]) = c}})))]]

(***************************************************************************)
(* Specification of usageplot.py: the histogram of a run of usage.py is    *)
(* read back (get_data), then make_plot and get_elapsed run on it.         *)
(***************************************************************************)
\* The kinds of job of the plotted run: a job name and a node count
PlotKinds == {[jobname |-> <<"c", "o", "a">>, nnodes |-> <<"2">>],
              [jobname |-> <<"m", "o", "s">>, nnodes |-> <<"3">>],
              [jobname |-> <<"q", "a">>, nnodes |-> <<"2">>]}

PlotRecords(u) ==
    {r \in {[jobname |-> j.jobname, nnodes |-> j.nnodes, start |-> u * a,
              end |-> u * b] :
                 j \in PlotKinds, a \in 0..MaxTicks, b \in 0..MaxTicks} :
        r.start <= r.end}

InitPlot ==
    /\ pc = "get_data"
    /\ \E u \in TimeUnits :
          data \in UNION {[1..n -> PlotRecords(u)] : n \in 1..MaxRecs}
    /\ res \in 1..MaxRes
    /\ get_usage(data, res).err = None
    /\ args = <<>> /\ stdout = <<>> /\ stderr = <<>> /\ recon = <<>>
    /\ data0 = <<>> /\ rerun = <<>> /\ mapping = <<>> /\ msg = <<>>
    /\ cur = 0
    /\ times = <<>> /\ usage = <<>> /\ jobs = <<>> /\ idx = <<>>
    /\ node_hours = -1 /\ err = None
    /\ code_nodehours = <<>> /\ start_end = <<>> /\ elapsed = <<>>
    /\ input = <<>> /\ pos = 0 /\ attempts = <<>> /\ commits = 0

\* times, nodes, jobs = get_data(data_file): the lists that get_usage
\* returned in the run of usage.py
GetData ==
    /\ pc = "get_data"
    /\ \E r \in {get_usage(data, res)} :
           /\ times' = r.times
           /\ usage' = r.usage
           /\ jobs' = r.jobs
           /\ idx' = r.idx
    /\ pc' = "make_plot"
    /\ UNCHANGED <<args, stdout, stderr, recon, data, data0, rerun, mapping,
                   msg, cur, res, node_hours, err, code_nodehours,
                   start_end, elapsed,
                   input, pos, attempts, commits>>

\* make_plot(title, times, nodes, name, color): get_first_last runs when
\* the plot is colour-coded
MakePlot ==
    /\ pc = "make_plot"
    /\ \E color \in BOOLEAN :
          IF color
          THEN \E r \in {usageplot_get_first_last(jobs)} :
                   /\ err' = r.err
                   /\ start_end' = r.start_end
                   /\ pc' = IF r.err = None THEN "get_elapsed" ELSE "failed"
          ELSE /\ pc' = "get_elapsed"
               /\ UNCHANGED <<err, start_end,
                   input, pos, attempts, commits>>
    /\ UNCHANGED <<args, stdout, stderr, recon, data, data0, rerun, mapping,
                   msg, cur, res, times, usage, jobs, idx, node_hours,
                   code_nodehours, elapsed,
                   input, pos, attempts, commits>>

GetElapsed ==
    /\ pc = "get_elapsed"
    /\ \E r \in {get_elapsed(times, jobs)} :
           /\ err' = r.err
           /\ elapsed' = r.elapsed
           /\ pc' = IF r.err = None THEN "elapsed_done" ELSE "failed"
    /\ UNCHANGED <<args, stdout, stderr, recon, data, data0, rerun, mapping,
                   msg, cur, res, times, usage, jobs, idx, node_hours,
                   code_nodehours, start_end,
                   input, pos, attempts, commits>>

\* node_hours = get_nodehours(times, nodes), after get_elapsed
GetPlotNodehours ==
    /\ pc = "elapsed_done"
    /\ \E r \in {usageplot_get_nodehours(times, usage)} :
           /\ err' = r.err
           /\ node_hours' = r.node_hours
           /\ pc' = IF r.err = None THEN "plot_done" ELSE "failed"
    /\ UNCHANGED <<args, stdout, stderr, recon, data, data0, rerun, mapping,
                   msg, cur, res, times, usage, jobs, idx,
                   code_nodehours, start_end, elapsed,
                   input, pos, attempts, commits>>

NextPlot == GetData \/ MakePlot \/ GetElapsed \/ GetPlotNodehours

SpecPlot == InitPlot /\ [][NextPlot]_vars

(***************************************************************************)
(* Properties of usageplot.py                                              *)
(***************************************************************************)
\* get_elapsed has returned
Elapsed == pc \in {"elapsed_done", "plot_done"}

\* The code name of a job of the plotted run
CodeOfJob(rec) == code_of(prefix2(rec.jobname))

\* The sum of end - start, in seconds, over the records of d with index in S
RECURSIVE RawSeconds(_, _)
RawSeconds(d, S) ==
    IF S = {} THEN 0
    ELSE LET n == CHOOSE m \in S : TRUE
         IN  (d[n].end - d[n].start) + RawSeconds(d, S \ {n})

\* C14: the elapsed time that get_elapsed returns for a code name is the
\* sum over the jobs of that code name of end - start, in hours, whatever
\* their node counts.
C14_ElapsedIsRawDuration ==
    Elapsed =>
        \A c \in DOMAIN elapsed :
            elapsed[c][1] * 3600 =
                elapsed[c][2] * RawSeconds(data, {n \in 1..Len(data) :
                                                     CodeOfJob(data[n]) = c})

(***************************************************************************)
(* Specification of gather_data on output of sacct in which rows can be    *)
(* malformed: empty, short of a field, or with a delimiter too many.       *)
(***************************************************************************)
MaxRows == 2

RowShapes == {"ok", "empty", "short", "extra", "shifted", "unended"}

\* A row of sacct of the given shape: as SacctRow prints it, empty, without
\* its last field, with one more field at its end, with a delimiter
\* inside the job name, or with the end time of a job that has not ended
ShapedRow(id, state, shape) ==
    LET row == SacctRow(id, state)
        cuts == {n \in 1..Len(row) : row[n] = ","}
    IN  CASE shape = "ok" -> row
          [] shape = "empty" -> <<>>
          [] shape = "short" -> SubSeq(row, 1, SetMax(cuts) - 1)
          [] shape = "extra" -> row \o <<",", "u1">>
          [] shape = "shifted" ->
                 SubSeq(row, 1, SetMin(cuts)) \o <<"co", ",", "add">>
                     \o SubSeq(row, SetMin(cuts \ {SetMin(cuts)}), Len(row))
          [] shape = "unended" ->
                 Join([Split(row, ",") EXCEPT ![6] =
                          <<"U", "n", "k", "n", "o", "w", "n">>], ",")

RowIds == {<<"1">>, <<"2">>, <<"1", ".", "0">>}

RowStates == {"COMPLETED", "FAILED"}

InitRows ==
    /\ pc = "gather_data"
    /\ args \in ArgSets
    /\ \E n \in 0..MaxRows :
          \E rows \in [1..n -> RowIds \X RowStates \X RowShapes] :
              stdout = Flatten([m \in 1..n |->
                                   ShapedRow(rows[m][1], rows[m][2],
                                             rows[m][3]) \o <<"\n">>])
    /\ stderr \in {<<>>, <<Warning>>}
    /\ recon = <<>> /\ data = <<>> /\ data0 = <<>> /\ rerun = <<>>
    /\ mapping = <<>> /\ msg = <<>> /\ cur = 0 /\ res = 0
    /\ times = <<>> /\ usage = <<>> /\ jobs = <<>> /\ idx = <<>>
    /\ node_hours = -1 /\ err = None
    /\ code_nodehours = <<>> /\ start_end = <<>> /\ elapsed = <<>>
    /\ input = <<>> /\ pos = 0 /\ attempts = <<>> /\ commits = 0

NextRows == GatherData \/ ConvertTimes

SpecRows == InitRows /\ [][NextRows]_vars

(***************************************************************************)
(* Properties of gather_data on malformed rows                             *)
(***************************************************************************)
\* The lines of sacct's output that do not have exactly the seven fields
Malformed ==
    {n \in 1..Len(splitlines(stdout)) :
        Len(Split(Strip(splitlines(stdout)[n]), ",")) # Len(fields)}

\* C17: when a row of sacct's output is malformed (too few fields, an
\* empty line, or more delimiter-separated fields than expected)
\* gather_data ends in an error and returns nothing: no such row is skipped,
\* truncated into a record or filtered out.
C17_MalformedRowFails ==
    (pc \in {"gathered", "failed"} /\ Malformed # {}) =>
        pc = "failed" /\ err # None /\ data = <<>>

(***************************************************************************)
(* Properties of gather_data on the errors of sacct                        *)
(***************************************************************************)
\* C18: whenever sacct wrote an error other than the warning about a
\* conflicting JOB_TERMINATED record, gather_data raises OSError and returns
\* no records, also when the warning was written along with it; error
\* output that holds nothing but that warning is swallowed.
C18_ErrorsSurfaced ==
    pc \in {"gathered", "rerun", "failed"} =>
        /\ (\E n \in 1..Len(stderr) : stderr[n] # Warning) =>
              pc = "failed" /\ err = "OSError" /\ data = <<>>
        /\ (stderr # <<>> /\ \A n \in 1..Len(stderr) : stderr[n] = Warning) =>
              err # "OSError"

(***************************************************************************)
(* Specification of get_usage on records whose labels are the code names   *)
(* of a mapping file: any JSON strings, the empty one and one with a comma *)
(* included.                                                               *)
(***************************************************************************)
LabelKinds == {[jobname |-> <<"c", "o">>, nnodes |-> <<"2">>],
               [jobname |-> <<"m", "o">>, nnodes |-> <<"3">>],
               [jobname |-> <<>>, nnodes |-> <<"2">>],
               [jobname |-> <<"a", ",", "b">>, nnodes |-> <<"3">>]}

LabelRecords(u) ==
    {r \in {[jobname |-> j.jobname, nnodes |-> j.nnodes, start |-> u * a,
              end |-> u * b] :
                 j \in LabelKinds, a \in 0..MaxTicks, b \in 0..MaxTicks} :
        r.start <= r.end}

InitLabels ==
    /\ pc = "get_usage"
    /\ \E u \in TimeUnits :
          data \in UNION {[1..n -> LabelRecords(u)] : n \in 0..MaxRecs}
    /\ res \in 0..MaxRes
    /\ args = <<>> /\ stdout = <<>> /\ stderr = <<>> /\ recon = <<>>
    /\ data0 = <<>> /\ rerun = <<>> /\ mapping = <<>> /\ msg = <<>>
    /\ cur = 0
    /\ times = <<>> /\ usage = <<>> /\ jobs = <<>> /\ idx = <<>>
    /\ node_hours = -1 /\ err = None
    /\ code_nodehours = <<>> /\ start_end = <<>> /\ elapsed = <<>>
    /\ input = <<>> /\ pos = 0 /\ attempts = <<>> /\ commits = 0

NextLabels == GetUsage \/ PlotUsage \/ GetNodehours

SpecLabels == InitLabels /\ [][NextLabels]_vars

(***************************************************************************)
(* Properties of the labels of the histogram                               *)
(***************************************************************************)
\* The labels of the records whose range(i, j) holds bucket k, in the order
\* of the records
LabelsSpanning(k) ==
    LET on == SelectSeq([n \in 1..Len(idx) |-> n],
                        LAMBDA n : idx[n][1] <= k /\ k < idx[n][2])
    IN  [m \in 1..Len(on) |-> data[on[m]].jobname]

\* C19: after get_usage the label list of every bucket k holds one entry
\* for every record whose bucket range [i, j) includes k, that record's
\* label, in the order of the records, and is empty when no record spans
\* the bucket.
C19_BucketLabels ==
    Returned =>
        /\ Len(jobs) = res
        /\ \A k \in 0..(res - 1) : jobs[k + 1] = LabelsSpanning(k)

\* C20: whenever the caller supplied an allow-list of failed jobs, every
\* top-level job that is still not COMPLETED after patching and whose id is
\* in that list is in the returned list, whether the run selects by job
\* list, by user list or over all users.
C20_AllowListHonoured ==
    Gathered =>
        \A r \in TopRows :
            (PatchedState(r) # COMPLETED /\ r["jobid"] \in CallerAllowList) =>
                \E n \in 1..Len(data) : data[n]["jobid"] = r["jobid"]

(***************************************************************************)
(* Properties of usageplot.py on job names of no known prefix              *)
(***************************************************************************)
\* The labels of the histogram whose two-character prefix is no key of
\* JOB_MAPPING
UnknownLabels ==
    {w \in UNION {SeqRange(jobs[n]) : n \in 1..Len(jobs)} :
        prefix2(w) \notin Keys(JOB_MAPPING)}

\* The bucket indices that hold a label of no known prefix
UnknownAt ==
    {k \in 0..(Len(jobs) - 1) :
        \E q \in 1..Len(jobs[k + 1]) : jobs[k + 1][q] \in UnknownLabels}

\* C21: in usageplot.py a job name whose two-character prefix is no key of
\* JOB_MAPPING is classified as 'unknown' and raises no error:
\* get_first_last returns the spans of its bucket indices under the key
\* 'unknown' and get_elapsed accumulates its time under 'unknown'.
C21_UnknownPrefix ==
    (pc \in {"get_elapsed", "elapsed_done", "plot_done", "failed"}
        /\ UnknownLabels # {}) =>
        /\ err # "KeyError"
        /\ start_end # <<>> =>
              /\ unknown \in DOMAIN start_end
              /\ UNION {start_end[unknown][p][1]..start_end[unknown][p][2] :
                           p \in 1..Len(start_end[unknown])} = UnknownAt
        /\ Elapsed =>
              /\ unknown \in DOMAIN elapsed
              /\ elapsed[unknown][1] > 0

(***************************************************************************)
(* Properties that relate the histogram to the node-hours                  *)
(***************************************************************************)
Abs(x) == IF x < 0 THEN -x ELSE x

\* True when record n starts and ends inside one bucket, by the exact
\* bucket bounds
InsideOneBucket(d, R, n) ==
    LET begin == SetMin({r.start : r \in SeqRange(d)})
    IN  /\ d[n].end > d[n].start
        /\ ExactIdx(d[n].start - begin, duration_of(d), R)
              = ExactIdx(d[n].end - begin, duration_of(d), R)

\* C22: for every record the number of buckets it contributes to, j - i,
\* differs from (end - start) / step by strictly less than 1, so that
\* |sum(usage) * step - sum of (end - start) * nnodes| < step * sum of
\* nnodes; a record with end > start that lies inside one bucket
\* contributes to no bucket.  (With step = duration / R, both inequalities
\* are multiplied by R.)
C22_QuantisationBound ==
    Returned =>
        LET dur == duration_of(data)
            all == 1..Len(data)
        IN  /\ \A n \in all :
                  Abs((idx[n][2] - idx[n][1]) * dur
                          - (data[n].end - data[n].start) * res) < dur
            /\ Abs(SumSeq(usage) * dur - NodeSeconds(data, all) * res)
                  < dur * NodeSum(data, all)
            /\ \A n \in all :
                  InsideOneBucket(data, res, n) => idx[n][1] = idx[n][2]

\* The bound of C22 where get_usage's indices are the exact floors
C22_BoundWhenExact ==
    (Returned /\ \A n \in 1..Len(data) :
                    LET begin == SetMin({r.start : r \in SeqRange(data)})
                    IN  /\ idx[n][1] = ExactIdx(data[n].start - begin,
                                                duration_of(data), res)
                        /\ idx[n][2] = ExactIdx(data[n].end - begin,
                                                duration_of(data), res)) =>
        C22_QuantisationBound

(***************************************************************************)
(* bin/ingest_overlap.py and bin/ingest_visit_tag.py                       *)
(*                                                                         *)
(* Both scripts read the rows of one input, execute one insert for a row   *)
(* and commit at the end.  args is                                         *)
(*   [script |-> "ingest_overlap", fnsqlite3 |-> optional, fncsv |-> ...]  *)
(* or [script |-> "ingest_visit_tag"].  input holds the data lines of the  *)
(* text file (after the header line of a csv file), or the rows of         *)
(* 'select * from calexp' as records                                       *)
(*   [tract, patch, visit, ccd, exist].                                    *)
(* The database and miscutils.fwsplit are outside the repository: an       *)
(* execute either returns or raises, and fwsplit splits at the delimiter   *)
(* and strips the items (the inputs have no parentheses and no colon).     *)
(***************************************************************************)
MaxInput == 2

oldpatchsep == ","
newpatchsep == "_"

\* The characters that strip() removes from a str of Python 2, the language
\* of the scripts (a byte string): the blank, \t, \n, \v, \f and \r
whitespace == {" ", "\t", "\n", "\\v", "\f", "\r"}

\* s.strip()
RECURSIVE strip_ws(_)
strip_ws(s) ==
    IF s # <<>> /\ s[1] \in whitespace THEN strip_ws(Tail(s))
    ELSE IF s # <<>> /\ s[Len(s)] \in whitespace
         THEN strip_ws(SubSeq(s, 1, Len(s) - 1))
         ELSE s

\* miscutils.fwsplit(fullstr, delim)
fwsplit(fullstr, delim) ==
    LET items == Split(fullstr, delim)
    IN  [n \in 1..Len(items) |-> strip_ws(items[n])]

\* re.sub(oldpatchsep, newpatchsep, patch)
re_sub(old, new, s) == [n \in 1..Len(s) |-> IF s[n] = old THEN new ELSE s[n]]

\* dict(zip(headers, data))
dict_zip(headers, items) ==
    LET m == IF Len(headers) < Len(items) THEN Len(headers) ELSE Len(items)
    IN  [n \in 1..m |-> <<headers[n], items[n]>>]

\* The first line of the csv file, and the headers process_csv reads from it
HeaderLine == <<"tract", ";", "patch", ";", "visit", ";", "ccd", "\n">>
headers_of(line, delim) ==
    LET items == fwsplit(line, delim)
    IN  [n \in 1..Len(items) |-> items[n][1]]

\* The body of process_csv's loop up to the insert: the values to insert,
\* or the KeyError of a line that lacks a field
csv_ovals(line, delim, version, fnskymap) ==
    LET cut == strip_ws(Split(line, "#")[1])
        svals == dict_zip(headers_of(HeaderLine, delim), fwsplit(cut, delim))
    IN  IF {"patch", "tract", "visit", "ccd"} \subseteq Keys(svals)
        THEN [err |-> None,
              ovals |-> [tract |-> DictGet(svals, "tract"),
                         patch |-> re_sub(oldpatchsep, newpatchsep,
                                          DictGet(svals, "patch")),
                         visit |-> DictGet(svals, "visit"),
                         ccd |-> DictGet(svals, "ccd"),
                         version |-> version, skymap |-> fnskymap]]
        ELSE [err |-> "KeyError", ovals |-> <<>>]

\* process_sqlite3 inserts the rows whose exist is not 0 and skips the others
skipped(svals) == svals.exist = 0

\* The body of process_sqlite3's loop for a row that is not skipped
sqlite3_ovals(svals, version, fnskymap) ==
    [err |-> None,
     ovals |-> [tract |-> svals.tract,
                patch |-> re_sub(oldpatchsep, newpatchsep, svals.patch),
                visit |-> svals.visit, ccd |-> svals.ccd,
                version |-> version, skymap |-> fnskymap]]

\* The body of ingest_visit_tag's loop up to the insert: the values to
\* insert, or the ValueError of a line that has not exactly two items
visit_tag_ovals(line, camsym, tag) ==
    LET items == fwsplit(line, " ")
    IN  IF Len(items) = 2
        THEN [err |-> None,
              ovals |-> [camsym |-> camsym, visit |-> items[1],
                         ccd |-> items[2], tag |-> tag]]
        ELSE [err |-> "ValueError", ovals |-> <<>>]

\* An exception of execute that is caught and the loop goes on
after_insert_swallowed(ok) == "read"

\* No exception is caught: a raising execute ends the script
after_insert(ok) == IF ok THEN "read" ELSE "failed"

IsSqlite3 == args.script = "ingest_overlap" /\ args.fnsqlite3 # NoArg

\* The values the loop body inserts for the row at position n, if any
row_ovals(n) ==
    IF args.script = "ingest_visit_tag"
    THEN visit_tag_ovals(input[n], "D", "t1")
    ELSE IF IsSqlite3 THEN sqlite3_ovals(input[n], "v1", "sky")
         ELSE csv_ovals(input[n], ";", "v1", "sky")

(***************************************************************************)
(* The runs of the two scripts                                             *)
(***************************************************************************)
CsvLines ==
    {<<"9", ";", "1", ",", "2", ";", "77", ";", "5", "\n">>,
     <<"9", ";", "3", ",", "4", ";", "78", ";", "6", "\t", "#", "x", "\r",
       "\n">>,
     <<"#", "x", "\n">>,
     <<"9", ";", "1", ",", "2", "\n">>}

CalexpRows ==
    {[tract |-> 9, patch |-> <<"1", ",", "2">>, visit |-> 77, ccd |-> 5,
      exist |-> 1],
     [tract |-> 9, patch |-> <<"3", ",", "4">>, visit |-> 78, ccd |-> 6,
      exist |-> 0]}

VisitLines ==
    {<<"77", " ", "5", "\r", "\n">>, <<"78", " ", "6", " ", "x", "\n">>, <<"\n">>}

InputsOf(S) == UNION {[1..n -> S] : n \in 0..MaxInput}

InitIngest ==
    /\ pc = "open"
    /\ \/ /\ args = [script |-> "ingest_overlap", fnsqlite3 |-> NoArg,
                     fncsv |-> Arg("overlap.csv")]
          /\ input \in InputsOf(CsvLines)
       \/ /\ args = [script |-> "ingest_overlap",
                     fnsqlite3 |-> Arg("overlap.sqlite3"), fncsv |-> NoArg]
          /\ input \in InputsOf(CalexpRows)
       \/ /\ args = [script |-> "ingest_visit_tag"]
          /\ input \in InputsOf(VisitLines)
    /\ pos = 0 /\ attempts = <<>> /\ commits = 0
    /\ stdout = <<>> /\ stderr = <<>> /\ recon = <<>>
    /\ data = <<>> /\ data0 = <<>> /\ rerun = <<>>
    /\ mapping = <<>> /\ msg = <<>> /\ cur = 0
    /\ res = 0 /\ times = <<>> /\ usage = <<>> /\ jobs = <<>> /\ idx = <<>>
    /\ node_hours = -1
    /\ code_nodehours = <<>> /\ start_end = <<>> /\ elapsed = <<>>
    /\ err = None

\* The exceptions of opening the input: of open(fncsv), or of sqlite3 on a
\* file that is not a database (DatabaseError) or has no table calexp
\* (OperationalError)
OpenErrors ==
    IF IsSqlite3 THEN {"DatabaseError", "OperationalError"} ELSE {"IOError"}

\* open(...) and the header line, or sqlite3.connect, check_sqlite3 and the
\* select of process_sqlite3: the input is there or the call raises
OpenInput ==
    /\ pc = "open"
    /\ \E e \in {None} \cup OpenErrors :
          /\ pc' = IF e = None THEN "read" ELSE "failed"
          /\ err' = e
    /\ UNCHANGED <<args, stdout, stderr, recon, data, data0, rerun, mapping,
                   msg, cur, res, times, usage, jobs, idx, node_hours,
                   code_nodehours, start_end, elapsed,
                   input, pos, attempts, commits>>

\* One turn of the loop over the rows
ProcessRow ==
    /\ pc = "read"
    /\ pos < Len(input)
    /\ pos' = pos + 1
    /\ IF IsSqlite3 /\ skipped(input[pos + 1])
       THEN UNCHANGED <<pc, err, attempts>>
       ELSE LET r == row_ovals(pos + 1)
            IN  IF r.err # None
                THEN /\ pc' = "failed"
                     /\ err' = r.err
                     /\ UNCHANGED attempts
                ELSE /\ attempts' = Append(attempts, r.ovals)
                     /\ \E ok \in BOOLEAN :
                           /\ pc' = after_insert(ok)
                           /\ err' = IF ok THEN None ELSE "DatabaseError"
    /\ UNCHANGED <<args, stdout, stderr, recon, data, data0, rerun, mapping,
                   msg, cur, res, times, usage, jobs, idx, node_hours,
                   code_nodehours, start_end, elapsed, input, commits>>

\* The end of the input: ingest_overlap goes on to check_oracle, which
\* executes a select and returns or raises; ingest_visit_tag to the commit
CheckOracle ==
    /\ pc = "read"
    /\ pos = Len(input)
    /\ IF args.script = "ingest_overlap"
       THEN \E ok \in BOOLEAN :
               /\ pc' = IF ok THEN "commit" ELSE "failed"
               /\ err' = IF ok THEN err ELSE "DatabaseError"
       ELSE pc' = "commit" /\ err' = err
    /\ UNCHANGED <<args, stdout, stderr, recon, data, data0, rerun, mapping,
                   msg, cur, res, times, usage, jobs, idx, node_hours,
                   code_nodehours, start_end, elapsed,
                   input, pos, attempts, commits>>

\* odbh.commit() / dbh.commit(), the last statement of both scripts: the
\* commit is issued, and the database returns or raises
Commit ==
    /\ pc = "commit"
    /\ commits' = commits + 1
    /\ \E ok \in BOOLEAN :
          /\ pc' = IF ok THEN "done" ELSE "failed"
          /\ err' = IF ok THEN err ELSE "DatabaseError"
    /\ UNCHANGED <<args, stdout, stderr, recon, data, data0, rerun, mapping,
                   msg, cur, res, times, usage, jobs, idx, node_hours,
                   code_nodehours, start_end, elapsed,
                   input, pos, attempts>>

NextIngest == OpenInput \/ ProcessRow \/ CheckOracle \/ Commit

SpecIngest == InitIngest /\ [][NextIngest]_vars

\* The rows of the input that process_sqlite3 skips
SkippedRows ==
    {n \in 1..Len(input) : IsSqlite3 /\ input[n].exist = 0}

\* The values of the insert of row n, read off the row itself
ValuesOfRow(n) ==
    IF args.script = "ingest_visit_tag"
    THEN [camsym |-> "D", visit |-> <<input[n][1]>>, ccd |-> <<input[n][3]>>,
          tag |-> "t1"]
    ELSE IF IsSqlite3
         THEN [tract |-> input[n].tract,
               patch |-> <<input[n].patch[1], "_", input[n].patch[3]>>,
               visit |-> input[n].visit, ccd |-> input[n].ccd,
               version |-> "v1", skymap |-> "sky"]
         ELSE [tract |-> <<input[n][1]>>,
               patch |-> <<input[n][3], "_", input[n][5]>>,
               visit |-> <<input[n][7]>>, ccd |-> <<input[n][9]>>,
               version |-> "v1", skymap |-> "sky"]

\* What holds of the commit in every state for the rows in Due: it is
\* issued at most once, once in a run that ends without an exception, and
\* when it has been issued every row has been read and an insert has been
\* attempted for every row in Due.
CommitState(Due) ==
    /\ commits <= 1
    /\ pc = "done" => commits = 1
    /\ commits > 0 =>
          /\ pos = Len(input)
          /\ Len(attempts) = Cardinality(Due)

\* Once an exception has been raised, no commit is issued
NoCommitAfterRaise == err # None => commits' = commits

\* C23 as stated: the commit is issued exactly once, only after an insert
\* has been attempted for every input row, and never after reading, parsing
\* or inserting a row raised.
C23_CommitAfterEveryRow ==
    /\ [](CommitState(1..Len(input)))
    /\ [][NoCommitAfterRaise]_vars

\* C23, amended: the commit is issued at most once, exactly once in a run
\* that ends without an exception, never after reading, parsing or
\* inserting a row (or the final count) raised, and only after an insert
\* has been attempted, with the row's values and in the order of the input,
\* for every input row other than the rows with exist = 0 that the sqlite3
\* mode skips.
C23_CommitAfterEveryIngestedRow ==
    /\ [](CommitState(1..Len(input) \ SkippedRows))
    /\ [](commits > 0 =>
            \A n \in 1..Len(input) \ SkippedRows :
                attempts[n - Cardinality({m \in SkippedRows : m < n})]
                    = ValuesOfRow(n))
    /\ [][NoCommitAfterRaise]_vars

\* A committed sqlite3 run with a skipped row and an inserted row
C23_Witness ==
    /\ pc = "done" /\ commits = 1 /\ err = None
    /\ SkippedRows # {}
    /\ attempts # <<>>

====
